---- MODULE Spec2Model ----
(***************************************************************************)
(* Model of platform.go: the Platform type with its three methods, the     *)
(* package-level snapshot slices Platforms_1_0 .. PlatformsLatest as the   *)
(* Go runtime builds them during package initialization (slice headers     *)
(* over backing arrays, append re-using spare capacity), and               *)
(* SupportedPlatforms, run step by step by one or several callers.         *)
(*                                                                         *)
(* Strings that the code inspects character by character (the version      *)
(* string, the constraint versions) are sequences of one-character         *)
(* strings.  The version strings of the model are made of digits and dots, *)
(* next to a handful of malformed ones; strings with a pre-release or      *)
(* metadata suffix ("1.9rc1", "1.9-beta+x"), whose treatment by            *)
(* constraints depends on the release of go-version linked in, are not     *)
(* part of the input domain.                                               *)
(***************************************************************************)
EXTENDS Integers, Sequences, FiniteSets, TLC

VARIABLES
    wordSize,   \* bytes of a machine word of the build (4 or 8)
    heap,       \* backing arrays: heap[a] is array a, Len(heap[a]) its capacity
    pkg,        \* the package-level variables Platforms_1_0 .. PlatformsLatest
    initpc,     \* index of the next package-level variable to initialize
    procs,      \* the goroutines that call SupportedPlatforms
    inputs,     \* the version strings the callers draw from
    call,       \* per goroutine: the activation record of SupportedPlatforms
    probe       \* the last method call on a Platform value and what it gave

vars == <<wordSize, heap, pkg, initpc, procs, inputs, call, probe>>

----------------------------------------------------------------------------
(* Bounds of the version strings go<major>.<minor>.<patch> the callers use. *)
MaxMajor == 2
MaxMinor == 13
MaxPatch == 1

----------------------------------------------------------------------------
(* type Platform *)

Plat(os, arch, def) == [OS |-> os, Arch |-> arch, Default |-> def]

ZeroPlatform == Plat("", "", FALSE)

\* A Go map[string]string read with a key: the zero value "" when absent.
MapLookup_KeyWhenAbsent(m, k) == IF k \in DOMAIN m THEN m[k] ELSE k

MapLookup(m, k) == IF k \in DOMAIN m THEN m[k] ELSE ""

String(p) == p.OS \o "/" \o p.Arch

OSUnameTable ==
    [k \in {"darwin", "dragonfly", "freebsd", "linux", "netbsd", "openbsd",
            "plan9", "solaris", "windows"} |->
        CASE k = "darwin"    -> "Darwin"
          [] k = "dragonfly" -> "DragonFly"
          [] k = "freebsd"   -> "FreeBSD"
          [] k = "linux"     -> "Linux"
          [] k = "netbsd"    -> "NetBSD"
          [] k = "openbsd"   -> "OpenBSD"
          [] k = "plan9"     -> "Plan9"
          [] k = "solaris"   -> "SunOS"
          [] k = "windows"   -> "Windows"]

OSUname(p) == MapLookup(OSUnameTable, p.OS)

ArchUnameTable ==
    [k \in {"386", "amd64", "arm", "arm64", "ppc64", "ppc64le"} |->
        CASE k = "386"     -> "i386"
          [] k = "amd64"   -> "x86_64"
          [] k = "arm"     -> "arm"
          [] k = "arm64"   -> "aarch64"
          [] k = "ppc64"   -> "ppc64"
          [] k = "ppc64le" -> "ppc64le"]

ArchUname(p) == MapLookup(ArchUnameTable, p.Arch)

----------------------------------------------------------------------------
(* The composite literals of the var block. *)

Lit_1_0 == <<
    Plat("darwin", "386", TRUE),
    Plat("darwin", "amd64", TRUE),
    Plat("linux", "386", TRUE),
    Plat("linux", "amd64", TRUE),
    Plat("linux", "arm", TRUE),
    Plat("freebsd", "386", TRUE),
    Plat("freebsd", "amd64", TRUE),
    Plat("openbsd", "386", TRUE),
    Plat("openbsd", "amd64", TRUE),
    Plat("windows", "386", TRUE),
    Plat("windows", "amd64", TRUE) >>

Lit_1_1 == <<
    Plat("freebsd", "arm", TRUE),
    Plat("netbsd", "386", TRUE),
    Plat("netbsd", "amd64", TRUE),
    Plat("netbsd", "arm", TRUE),
    Plat("plan9", "386", FALSE) >>

Lit_1_3 == <<
    Plat("dragonfly", "386", FALSE),
    Plat("dragonfly", "amd64", FALSE),
    Plat("nacl", "amd64", FALSE),
    Plat("nacl", "amd64p32", FALSE),
    Plat("nacl", "arm", FALSE),
    Plat("solaris", "amd64", FALSE) >>

Lit_1_4 == <<
    Plat("android", "arm", FALSE),
    Plat("plan9", "amd64", FALSE) >>

Lit_1_5 == <<
    Plat("darwin", "arm", FALSE),
    Plat("darwin", "arm64", FALSE),
    Plat("linux", "arm64", FALSE),
    Plat("linux", "ppc64", FALSE),
    Plat("linux", "ppc64le", FALSE) >>

Lit_1_6 == <<
    Plat("android", "386", FALSE),
    Plat("linux", "mips64", FALSE),
    Plat("linux", "mips64le", FALSE) >>

Lit_1_7 == <<
    Plat("linux", "s390x", TRUE),
    Plat("plan9", "arm", FALSE),
    Plat("android", "386", FALSE),
    Plat("linux", "mips64", TRUE),
    Plat("linux", "mips64le", TRUE) >>

Lit_1_8 == <<
    Plat("linux", "mips", TRUE),
    Plat("linux", "mipsle", TRUE),
    Plat("linux", "arm64", TRUE) >>

Lit_1_9 == <<
    Plat("linux", "riscv64", TRUE),
    Plat("freebsd", "riscv64", TRUE),
    Plat("freebsd", "arm64", TRUE),
    Plat("freebsd", "arm", TRUE),
    Plat("openbsd", "arm64", TRUE),
    Plat("openbsd", "arm", TRUE),
    Plat("openbsd", "riscv64", TRUE),
    Plat("windows", "arm", TRUE),
    Plat("windows", "arm64", TRUE),
    Plat("js", "wasm", TRUE) >>

Lit_1_11 == <<
    Plat("js", "wasm", TRUE),
    Plat("linux", "arm64", TRUE) >>

Lit_1_12 == <<
    Plat("linux", "ppc64", TRUE),
    Plat("windows", "arm", TRUE),
    Plat("aix", "ppc64", TRUE) >>

\* The var block, in declaration order (which is also dependency order, so
\* the order in which the runtime initializes the variables): the variable,
\* the slice its initializer extends ("" for a plain literal) and the literal.
VarBlock == <<
    [name |-> "Platforms_1_0",   base |-> "",               lit |-> Lit_1_0],
    [name |-> "Platforms_1_1",   base |-> "Platforms_1_0",  lit |-> Lit_1_1],
    [name |-> "Platforms_1_3",   base |-> "Platforms_1_1",  lit |-> Lit_1_3],
    [name |-> "Platforms_1_4",   base |-> "Platforms_1_3",  lit |-> Lit_1_4],
    [name |-> "Platforms_1_5",   base |-> "Platforms_1_4",  lit |-> Lit_1_5],
    [name |-> "Platforms_1_6",   base |-> "Platforms_1_5",  lit |-> Lit_1_6],
    [name |-> "Platforms_1_7",   base |-> "Platforms_1_5",  lit |-> Lit_1_7],
    [name |-> "Platforms_1_8",   base |-> "Platforms_1_7",  lit |-> Lit_1_8],
    [name |-> "Platforms_1_9",   base |-> "Platforms_1_8",  lit |-> Lit_1_9],
    [name |-> "Platforms_1_10",  base |-> "Platforms_1_9",  lit |-> <<>>],
    [name |-> "Platforms_1_11",  base |-> "Platforms_1_10", lit |-> Lit_1_11],
    [name |-> "Platforms_1_12",  base |-> "Platforms_1_11", lit |-> Lit_1_12],
    [name |-> "PlatformsLatest", base |-> "Platforms_1_12", lit |-> <<>>] >>

VarNames == {VarBlock[k].name : k \in 1..Len(VarBlock)}

----------------------------------------------------------------------------
(* Slices: a header (array, len, cap) over a backing array of the heap.    *)

NilSlice == [arr |-> 0, len |-> 0, cap |-> 0]

\* The elements a slice shows: the first len cells of its array.
Elems(h, s) == IF s.arr = 0 THEN <<>> ELSE SubSeq(h[s.arr], 1, s.len)

\* unsafe.Sizeof(Platform{}): two string headers (pointer, length) and a
\* bool padded to the word.
SizeofPlatform(w) == 5 * w

\* The allocator's size classes up to 8 KiB; larger requests are rounded up
\* to whole 8 KiB pages.
SizeClasses ==
    {8, 16, 24, 32, 48, 64, 80, 96, 112, 128, 144, 160, 176, 192, 208, 224,
     240, 256, 288, 320, 352, 384, 416, 448, 480, 512, 576, 640, 704, 768,
     896, 1024, 1152, 1280, 1408, 1536, 1792, 2048, 2304, 2688, 3072, 3200,
     3456, 4096, 4864, 5120, 5376, 6144, 6528, 6784, 6912, 8192}

RoundUpSize(n) ==
    IF n <= 8192
    THEN CHOOSE c \in SizeClasses :
            c >= n /\ \A d \in SizeClasses : d >= n => c <= d
    ELSE ((n + 8191) \div 8192) * 8192

\* runtime.growslice: the capacity of the array allocated when newLen
\* elements do not fit in oldCap.
GrowCap(oldCap, newLen, w) ==
    LET want == IF newLen > 2 * oldCap THEN newLen
                ELSE IF oldCap < 256 THEN 2 * oldCap
                ELSE oldCap + (oldCap + 768) \div 4
        cap  == IF want < newLen THEN newLen ELSE want
    IN  RoundUpSize(cap * SizeofPlatform(w)) \div SizeofPlatform(w)

\* []Platform{...}: a fresh array holding exactly the listed elements.
SliceLiteral(h, xs) ==
    [heap  |-> Append(h, xs),
     slice |-> [arr |-> Len(h) + 1, len |-> Len(xs), cap |-> Len(xs)]]

\* append(s, xs...): writes xs into s's array after its len elements when
\* they fit in cap (the array is shared with every other slice over it),
\* and otherwise copies s's elements and xs into a new, larger array.
AppendSlice(h, s, xs, w) ==
    LET newLen == s.len + Len(xs) IN
    IF newLen <= s.cap
    THEN [heap  |-> IF s.arr = 0 THEN h
                    ELSE [h EXCEPT ![s.arr] =
                            [i \in 1..s.cap |->
                                IF i > s.len /\ i <= newLen
                                THEN xs[i - s.len] ELSE @[i]]],
          slice |-> [s EXCEPT !.len = newLen]]
    ELSE LET newCap == GrowCap(s.cap, newLen, w) IN
         [heap  |-> Append(h, Elems(h, s) \o xs
                              \o [i \in 1..(newCap - newLen) |-> ZeroPlatform]),
          slice |-> [arr |-> Len(h) + 1, len |-> newLen, cap |-> newCap]]

----------------------------------------------------------------------------
(* Package initialization: one variable of the var block per step.         *)

InitDone == initpc > Len(VarBlock)

InitVar ==
    /\ ~InitDone
    /\ LET d == VarBlock[initpc]
           r == IF d.base = "" THEN SliceLiteral(heap, d.lit)
                ELSE IF d.lit = <<>>
                     THEN [heap |-> heap, slice |-> pkg[d.base]]
                     ELSE AppendSlice(heap, pkg[d.base], d.lit, wordSize)
       IN  /\ heap' = r.heap
           /\ pkg' = [pkg EXCEPT ![d.name] = r.slice]
    /\ initpc' = initpc + 1
    /\ UNCHANGED <<wordSize, procs, inputs, call, probe>>

----------------------------------------------------------------------------
(* Strings as sequences of characters.                                     *)

DigitChars == <<"0", "1", "2", "3", "4", "5", "6", "7", "8", "9">>

IsDigit(c) == \E d \in 1..10 : DigitChars[d] = c

DigitVal(c) == (CHOOSE d \in 1..10 : DigitChars[d] = c) - 1

RECURSIVE Itoa(_)
Itoa(n) == IF n < 10 THEN <<DigitChars[n + 1]>>
           ELSE Itoa(n \div 10) \o <<DigitChars[(n % 10) + 1]>>

\* strconv.ParseInt(cs, 10, 64) on a string of digits.
RECURSIVE Atoi(_)
Atoi(cs) == IF cs = <<>> THEN 0
            ELSE 10 * Atoi(SubSeq(cs, 1, Len(cs) - 1)) + DigitVal(cs[Len(cs)])

\* The dotted rendering of a sequence of numbers: <<1, 9, 2>> is "1.9.2".
RECURSIVE Dotted(_)
Dotted(ns) == IF Len(ns) = 1 THEN Itoa(ns[1])
              ELSE Itoa(ns[1]) \o <<".">> \o Dotted(Tail(ns))

\* strings.Split(s, ".")
RECURSIVE SplitDots(_)
SplitDots(s) ==
    IF \A i \in 1..Len(s) : s[i] # "." THEN <<s>>
    ELSE LET i == CHOOSE j \in 1..Len(s) :
                     s[j] = "." /\ \A k \in 1..(j - 1) : s[k] # "."
         IN  <<SubSeq(s, 1, i - 1)>> \o SplitDots(SubSeq(s, i + 1, Len(s)))

\* strings.HasPrefix
HasPrefix_FirstCharOnly(s, prefix) == Len(s) >= 1 /\ s[1] = prefix[1]

HasPrefix(s, prefix) ==
    /\ Len(s) >= Len(prefix)
    /\ SubSeq(s, 1, Len(prefix)) = prefix

GoPrefix == <<"g", "o">>

----------------------------------------------------------------------------
(* github.com/hashicorp/go-version, as the code uses it.                   *)

\* version.NewVersion: an optional "v", then one or more runs of digits
\* separated by dots; fewer than three segments are padded with zeros.
\* Every other string of the input domain is rejected with an error.
NewVersion(s) ==
    LET body  == IF Len(s) >= 1 /\ s[1] = "v" THEN Tail(s) ELSE s
        parts == SplitDots(body)
        ok    == \A i \in 1..Len(parts) :
                    /\ parts[i] # <<>>
                    /\ \A j \in 1..Len(parts[i]) : IsDigit(parts[i][j])
        segs  == [i \in 1..Len(parts) |-> Atoi(parts[i])]
    IN  IF ok
        THEN [err |-> FALSE,
              segments |-> IF Len(segs) >= 3 THEN segs
                           ELSE segs \o [i \in 1..(3 - Len(segs)) |-> 0]]
        ELSE [err |-> TRUE, segments |-> <<>>]

\* Version.Compare on the segments: -1, 0 or 1, the shorter side read as
\* padded with zeros.
RECURSIVE Compare(_, _)
Compare(a, b) ==
    IF a = <<>> /\ b = <<>> THEN 0
    ELSE LET x == IF a = <<>> THEN 0 ELSE Head(a)
             y == IF b = <<>> THEN 0 ELSE Head(b)
         IN  IF x < y THEN -1
             ELSE IF x > y THEN 1
             ELSE Compare(IF a = <<>> THEN a ELSE Tail(a),
                          IF b = <<>> THEN b ELSE Tail(b))

constraintLessThan_OrEqual(v, c) == Compare(v, c) <= 0

constraintLessThan(v, c) == Compare(v, c) < 0

constraintLessThanEqual_Strict(v, c) == Compare(v, c) < 0

constraintLessThanEqual(v, c) == Compare(v, c) <= 0

constraintGreaterThanEqual(v, c) == Compare(v, c) >= 0

\* The comparison operators a constraint may name.
ConstraintOperators == {"", "=", "!=", ">", "<", ">=", "<=", "~>"}

\* A constraint string is held as its comma-separated parts, each the
\* operator and the characters of the version after it.
Part(op, ns) == [op |-> op, version |-> Dotted(ns)]

\* version.NewConstraint: an error when a part names no known operator or
\* its version does not parse.
NewConstraint(parts) ==
    LET bad == \E i \in 1..Len(parts) :
                  \/ parts[i].op \notin ConstraintOperators
                  \/ NewVersion(parts[i].version).err
    IN  [err |-> bad,
         checks |-> IF bad THEN <<>>
                    ELSE [i \in 1..Len(parts) |->
                            [op |-> parts[i].op,
                             check |-> NewVersion(parts[i].version).segments]]]

\* Constraints.Check: every part of the constraint holds of the version.
\* Of the operators only the three of the table are modelled.
Check(cs, v) ==
    \A i \in 1..Len(cs) :
        CASE cs[i].op = "<=" -> constraintLessThanEqual(v, cs[i].check)
          [] cs[i].op = ">=" -> constraintGreaterThanEqual(v, cs[i].check)
          [] cs[i].op = "<"  -> constraintLessThan(v, cs[i].check)

----------------------------------------------------------------------------
(* func SupportedPlatforms(v string) []Platform                            *)

\* The local table `platforms`: each constraint with the slice header the
\* package variable holds when the table is built.
PlatformsTable_1_5_Misfiled(g) == <<
    [constraint |-> <<Part("<=", <<1, 0>>)>>, plat |-> g.Platforms_1_0],
    [constraint |-> <<Part(">=", <<1, 1>>), Part("<", <<1, 3>>)>>,
     plat |-> g.Platforms_1_1],
    [constraint |-> <<Part(">=", <<1, 3>>), Part("<", <<1, 4>>)>>,
     plat |-> g.Platforms_1_3],
    [constraint |-> <<Part(">=", <<1, 4>>), Part("<", <<1, 5>>)>>,
     plat |-> g.Platforms_1_4],
    [constraint |-> <<Part(">=", <<1, 5>>), Part("<", <<1, 6>>)>>,
     plat |-> g.Platforms_1_8],
    [constraint |-> <<Part(">=", <<1, 6>>), Part("<", <<1, 7>>)>>,
     plat |-> g.Platforms_1_6],
    [constraint |-> <<Part(">=", <<1, 7>>), Part("<", <<1, 8>>)>>,
     plat |-> g.Platforms_1_7],
    [constraint |-> <<Part(">=", <<1, 8>>), Part("<", <<1, 9>>)>>,
     plat |-> g.Platforms_1_8],
    [constraint |-> <<Part(">=", <<1, 9>>), Part("<", <<1, 10>>)>>,
     plat |-> g.Platforms_1_9],
    [constraint |-> <<Part(">=", <<1, 10>>), Part("<", <<1, 11>>)>>,
     plat |-> g.Platforms_1_10],
    [constraint |-> <<Part(">=", <<1, 11>>), Part("<", <<1, 12>>)>>,
     plat |-> g.Platforms_1_11],
    [constraint |-> <<Part(">=", <<1, 12>>), Part("<", <<1, 13>>)>>,
     plat |-> g.Platforms_1_12] >>

PlatformsTable(g) == <<
    [constraint |-> <<Part("<=", <<1, 0>>)>>, plat |-> g.Platforms_1_0],
    [constraint |-> <<Part(">=", <<1, 1>>), Part("<", <<1, 3>>)>>,
     plat |-> g.Platforms_1_1],
    [constraint |-> <<Part(">=", <<1, 3>>), Part("<", <<1, 4>>)>>,
     plat |-> g.Platforms_1_3],
    [constraint |-> <<Part(">=", <<1, 4>>), Part("<", <<1, 5>>)>>,
     plat |-> g.Platforms_1_4],
    [constraint |-> <<Part(">=", <<1, 5>>), Part("<", <<1, 6>>)>>,
     plat |-> g.Platforms_1_5],
    [constraint |-> <<Part(">=", <<1, 6>>), Part("<", <<1, 7>>)>>,
     plat |-> g.Platforms_1_6],
    [constraint |-> <<Part(">=", <<1, 7>>), Part("<", <<1, 8>>)>>,
     plat |-> g.Platforms_1_7],
    [constraint |-> <<Part(">=", <<1, 8>>), Part("<", <<1, 9>>)>>,
     plat |-> g.Platforms_1_8],
    [constraint |-> <<Part(">=", <<1, 9>>), Part("<", <<1, 10>>)>>,
     plat |-> g.Platforms_1_9],
    [constraint |-> <<Part(">=", <<1, 10>>), Part("<", <<1, 11>>)>>,
     plat |-> g.Platforms_1_10],
    [constraint |-> <<Part(">=", <<1, 11>>), Part("<", <<1, 12>>)>>,
     plat |-> g.Platforms_1_11],
    [constraint |-> <<Part(">=", <<1, 12>>), Part("<", <<1, 13>>)>>,
     plat |-> g.Platforms_1_12] >>

\* `return <slice>`: the caller receives the slice header itself, that is a
\* view of the package's own backing array; nothing is copied or written.
ReturnSlice_Normalized(h, s) ==
    [heap |-> [h EXCEPT ![s.arr] =
                 [i \in 1..Len(@) |-> [@[i] EXCEPT !.Default = FALSE]]],
     ret  |-> s]

ReturnSlice(h, s) == [heap |-> h, ret |-> s]

\* The function as one evaluation, for a caller that runs alone: the
\* returned slice header.
SupportedPlatforms(g, s) ==
    IF ~HasPrefix(s, GoPrefix) THEN g.PlatformsLatest
    ELSE LET r == NewVersion(SubSeq(s, 3, Len(s))) IN
         IF r.err THEN g.PlatformsLatest
         ELSE LET t    == PlatformsTable(g)
                  hits == {i \in 1..Len(t) :
                             Check(NewConstraint(t[i].constraint).checks,
                                   r.segments)}
              IN  IF hits = {} THEN g.Platforms_1_12
                  ELSE t[CHOOSE i \in hits : \A j \in hits : i <= j].plat

\* The activation record of a goroutine that is not inside the function.
IdleCall ==
    [pc |-> "idle", arg |-> <<>>, v |-> <<>>, current |-> <<>>,
     platforms |-> <<>>, i |-> 0, ret |-> NilSlice, exit |-> "",
     logged |-> FALSE]

\* A goroutine calls SupportedPlatforms(s).  main starts, and with it every
\* caller, only when package initialization is complete.
Enter(p, s) ==
    /\ InitDone
    /\ call[p].pc = "idle"
    /\ call' = [call EXCEPT ![p] = [IdleCall EXCEPT !.pc = "prefix",
                                                    !.arg = s, !.v = s]]
    /\ UNCHANGED <<wordSize, heap, pkg, initpc, procs, inputs, probe>>

\* if !strings.HasPrefix(v, "go") { return PlatformsLatest };  v = v[2:]
CheckPrefix(p) ==
    /\ call[p].pc = "prefix"
    /\ IF ~HasPrefix(call[p].v, GoPrefix)
       THEN LET r == ReturnSlice(heap, pkg.PlatformsLatest) IN
            /\ heap' = r.heap
            /\ call' = [call EXCEPT ![p].pc = "done", ![p].ret = r.ret,
                                    ![p].exit = "prefix"]
       ELSE /\ heap' = heap
            /\ call' = [call EXCEPT ![p].pc = "parse",
                           ![p].v = SubSeq(call[p].v, 3, Len(call[p].v))]
    /\ UNCHANGED <<wordSize, pkg, initpc, procs, inputs, probe>>

\* current, err := version.NewVersion(v); on an error the diagnostic is
\* logged and PlatformsLatest returned; otherwise the table is built.
ParseVersion(p) ==
    /\ call[p].pc = "parse"
    /\ LET r == NewVersion(call[p].v) IN
       IF r.err
       THEN LET x == ReturnSlice(heap, pkg.PlatformsLatest) IN
            /\ heap' = x.heap
            /\ call' = [call EXCEPT ![p].pc = "done", ![p].ret = x.ret,
                                    ![p].exit = "parse", ![p].logged = TRUE]
       ELSE /\ heap' = heap
            /\ call' = [call EXCEPT ![p].pc = "range",
                                    ![p].current = r.segments,
                                    ![p].platforms = PlatformsTable(pkg),
                                    ![p].i = 1]
    /\ UNCHANGED <<wordSize, pkg, initpc, procs, inputs, probe>>

\* One iteration of `for _, p := range platforms`: panic on a constraint
\* that does not parse, return p.plat when the constraint holds of the
\* version, else go on to the next entry or leave the loop.
RangeStep(p) ==
    /\ call[p].pc = "range"
    /\ LET e == call[p].platforms[call[p].i]
           c == NewConstraint(e.constraint)
       IN  IF c.err
           THEN /\ heap' = heap
                /\ call' = [call EXCEPT ![p].pc = "panicked",
                                        ![p].exit = "panic"]
           ELSE IF Check(c.checks, call[p].current)
           THEN LET x == ReturnSlice(heap, e.plat) IN
                /\ heap' = x.heap
                /\ call' = [call EXCEPT ![p].pc = "done", ![p].ret = x.ret,
                                        ![p].exit = "loop"]
           ELSE /\ heap' = heap
                /\ call' = [call EXCEPT
                              ![p].pc = IF call[p].i < Len(call[p].platforms)
                                        THEN "range" ELSE "after",
                              ![p].i = call[p].i + 1]
    /\ UNCHANGED <<wordSize, pkg, initpc, procs, inputs, probe>>

\* The statement after the loop: `return Platforms_1_12`.
AssumeLatest(p) ==
    /\ call[p].pc = "after"
    /\ LET x == ReturnSlice(heap, pkg.Platforms_1_12) IN
       /\ heap' = x.heap
       /\ call' = [call EXCEPT ![p].pc = "done", ![p].ret = x.ret,
                               ![p].exit = "after"]
    /\ UNCHANGED <<wordSize, pkg, initpc, procs, inputs, probe>>

\* The caller is done with the list and may call again.
Leave(p) ==
    /\ call[p].pc = "done"
    /\ call' = [call EXCEPT ![p] = IdleCall]
    /\ UNCHANGED <<wordSize, heap, pkg, initpc, procs, inputs, probe>>

----------------------------------------------------------------------------
(* The callers' inputs.                                                    *)

VersionNumbers ==
    {<<a>> : a \in 0..MaxMajor}
    \cup {<<a, b>> : a \in 0..MaxMajor, b \in 0..MaxMinor}
    \cup {<<a, b, c>> : a \in 0..MaxMajor, b \in 0..MaxMinor, c \in 0..MaxPatch}

\* Strings that name no release: no "go" prefix, or a remainder that is no
\* version; and two that parse, "go99.99.99" and "gov1.4".
OddInputs ==
    { <<"n", "o", "t", "-", "a", "-", "v", "e", "r", "s", "i", "o", "n">>,
      <<>>,
      <<"g">>,
      <<"g", "o">>,
      <<"g", "c", "1", ".", "5">>,
      <<"1", ".", "9", ".", "2">>,
      <<"g", "o", "1", ".", "6", ".", "x">>,
      <<"g", "o", "1", ".", ".", "2">>,
      <<"g", "o", "p", "h", "e", "r">>,
      <<"g", "o", "v", "1", ".", "4">>,
      GoPrefix \o Dotted(<<99, 99, 99>>) }

AllInputs == {GoPrefix \o Dotted(ns) : ns \in VersionNumbers} \cup OddInputs

\* The inputs of concurrent callers: one release per minor version, a
\* patch release, and three strings that fall back.
FewInputs ==
    {GoPrefix \o Dotted(<<1, b>>) : b \in 0..MaxMinor}
    \cup { GoPrefix \o Dotted(<<1, 0, 1>>),
           GoPrefix \o Dotted(<<1, 6, 1>>),
           <<"n", "o", "t", "-", "a", "-", "v", "e", "r", "s", "i", "o", "n">>,
           <<"g", "o", "1", ".", "6", ".", "x">>,
           GoPrefix \o Dotted(<<99, 99, 99>>) }

----------------------------------------------------------------------------
(* Method calls on a Platform value.                                       *)

ProbeOS == DOMAIN OSUnameTable \cup {"android", "nacl", "zos", "js", "aix"}

ProbeArch ==
    DOMAIN ArchUnameTable
    \cup {"amd64p32", "mips", "mipsle", "mips64", "mips64le", "ppc", "s390",
          "s390x", "sparc", "sparc64", "riscv64", "wasm"}

ProbePlatforms ==
    {Plat(os, arch, d) : os \in ProbeOS, arch \in ProbeArch, d \in BOOLEAN}

NoProbe == [method |-> "", before |-> ZeroPlatform, after |-> ZeroPlatform,
            out |-> ""]

\* Each method reads its receiver *p and returns a string.
CallString(p) ==
    /\ probe.method = ""
    /\ probe' = [method |-> "String", before |-> p, after |-> p,
                 out |-> String(p)]
    /\ UNCHANGED <<wordSize, heap, pkg, initpc, procs, inputs, call>>

CallOSUname(p) ==
    /\ probe.method = ""
    /\ probe' = [method |-> "OSUname", before |-> p, after |-> p,
                 out |-> OSUname(p)]
    /\ UNCHANGED <<wordSize, heap, pkg, initpc, procs, inputs, call>>

CallArchUname(p) ==
    /\ probe.method = ""
    /\ probe' = [method |-> "ArchUname", before |-> p, after |-> p,
                 out |-> ArchUname(p)]
    /\ UNCHANGED <<wordSize, heap, pkg, initpc, procs, inputs, call>>

\* The caller drops the string it was given.
Discard ==
    /\ probe.method # ""
    /\ probe' = NoProbe
    /\ UNCHANGED <<wordSize, heap, pkg, initpc, procs, inputs, call>>

----------------------------------------------------------------------------
(* Specifications.                                                         *)

InitWith(ps, ins) ==
    /\ wordSize \in {4, 8}
    /\ heap = <<>>
    /\ pkg = [n \in VarNames |-> NilSlice]
    /\ initpc = 1
    /\ procs = ps
    /\ inputs = ins
    /\ call = [p \in ps |-> IdleCall]
    /\ probe = NoProbe

\* One caller, every input.
Init == InitWith({"c1"}, AllInputs)

\* Two concurrent callers.
InitConc == InitWith({"c1", "c2"}, FewInputs)

Next ==
    \/ InitVar
    \/ \E p \in procs : \E s \in inputs : Enter(p, s)
    \/ \E p \in procs : CheckPrefix(p)
    \/ \E p \in procs : ParseVersion(p)
    \/ \E p \in procs : RangeStep(p)
    \/ \E p \in procs : AssumeLatest(p)
    \/ \E p \in procs : Leave(p)

Spec == Init /\ [][Next]_vars

SpecConc == InitConc /\ [][Next]_vars

NextMethods ==
    \/ \E p \in ProbePlatforms : CallString(p)
    \/ \E p \in ProbePlatforms : CallOSUname(p)
    \/ \E p \in ProbePlatforms : CallArchUname(p)
    \/ Discard

SpecMethods == Init /\ [][NextMethods]_vars

----------------------------------------------------------------------------
(* Vocabulary of the properties.                                           *)

\* The position of a variable in the var block.
VarIndex(n) == CHOOSE k \in 1..Len(VarBlock) : VarBlock[k].name = n

\* The variable has been initialized.
Built(n) == VarIndex(n) < initpc

\* The elements a package variable shows now.
Content(n) == Elems(heap, pkg[n])

\* The elements a variable is written to hold: those of the slice its
\* initializer extends, followed by the listed additions.
RECURSIVE Authored(_)
Authored(n) ==
    LET d == VarBlock[VarIndex(n)] IN
    IF d.base = "" THEN d.lit ELSE Authored(d.base) \o d.lit

\* The set of entries of a list.
Entries(xs) == {xs[i] : i \in 1..Len(xs)}

\* The string begins with "go" and what follows parses as a version.
BeginsWithGo(s) == Len(s) >= 2 /\ s[1] = "g" /\ s[2] = "o"

Parses(s) == BeginsWithGo(s) /\ ~NewVersion(SubSeq(s, 3, Len(s))).err

VersionOf(s) == NewVersion(SubSeq(s, 3, Len(s))).segments

\* The ranges of the table as bounds on the version, and the variable each
\* entry names: lo <= v < hi, the first entry being v <= 1.0.
RangeNames == <<"Platforms_1_0", "Platforms_1_1", "Platforms_1_3",
                "Platforms_1_4", "Platforms_1_5", "Platforms_1_6",
                "Platforms_1_7", "Platforms_1_8", "Platforms_1_9",
                "Platforms_1_10", "Platforms_1_11", "Platforms_1_12">>

RangeLow == <<<<0>>, <<1, 1>>, <<1, 3>>, <<1, 4>>, <<1, 5>>, <<1, 6>>,
              <<1, 7>>, <<1, 8>>, <<1, 9>>, <<1, 10>>, <<1, 11>>, <<1, 12>>>>

RangeHigh == <<<<1, 0>>, <<1, 3>>, <<1, 4>>, <<1, 5>>, <<1, 6>>, <<1, 7>>,
               <<1, 8>>, <<1, 9>>, <<1, 10>>, <<1, 11>>, <<1, 12>>, <<1, 13>>>>

InRange(v, k) ==
    IF k = 1 THEN Compare(v, RangeHigh[1]) <= 0
    ELSE Compare(v, RangeLow[k]) >= 0 /\ Compare(v, RangeHigh[k]) < 0

InSomeRange(v) == \E k \in 1..Len(RangeNames) : InRange(v, k)

FirstRange(v) ==
    CHOOSE k \in 1..Len(RangeNames) :
        InRange(v, k) /\ \A j \in 1..(k - 1) : ~InRange(v, j)

NotAVersion == <<"n", "o", "t", "-", "a", "-", "v", "e", "r", "s", "i", "o", "n">>

Go(ns) == GoPrefix \o Dotted(ns)

Returned(p) == Elems(heap, call[p].ret)

----------------------------------------------------------------------------
\* C1: whenever a call returns for a string "go<V>" whose version V lies in
\* a range of the table, the list returned is the snapshot of the first
\* such range, and it holds exactly the entries that snapshot was written
\* with (the snapshot it extends followed by its additions).
C1_ReturnsAuthoredSnapshot ==
    \A p \in procs :
        (call[p].pc = "done" /\ Parses(call[p].arg)
            /\ InSomeRange(VersionOf(call[p].arg)))
        => LET n == RangeNames[FirstRange(VersionOf(call[p].arg))] IN
           /\ call[p].ret = pkg[n]
           /\ Returned(p) = Authored(n)

\* C2: no call panics, every call that returns gives a non-empty list that
\* is one of the snapshots, and a string that does not begin with "go" or
\* whose remainder is no version gives exactly the latest snapshot, the
\* same list "go99.99.99" gives.
C2_AlwaysAList ==
    \A p \in procs :
        /\ call[p].exit # "panic"
        /\ call[p].pc = "done" =>
            /\ call[p].ret.len > 0
            /\ \E n \in VarNames : call[p].ret = pkg[n]
            /\ (~Parses(call[p].arg) \/ call[p].arg = Go(<<99, 99, 99>>)) =>
                /\ call[p].ret = pkg.PlatformsLatest
                /\ Returned(p) = Content("PlatformsLatest")

C2_Witness ==
    \E p \in procs :
        /\ call[p].pc = "done"
        /\ call[p].arg = NotAVersion
        /\ call[p].ret = pkg.PlatformsLatest
        /\ Returned(p) # <<>>

\* C3: a call for a version at most 1.0 returns the 1.0 snapshot, and once
\* every later snapshot has been built that list still has its 11 entries,
\* all of them default targets.
C3_OldestSnapshot ==
    /\ InitDone =>
        /\ Len(Content("Platforms_1_0")) = 11
        /\ Content("Platforms_1_0") = Lit_1_0
    /\ \A p \in procs :
        (call[p].pc = "done" /\ Parses(call[p].arg)
            /\ Compare(VersionOf(call[p].arg), <<1, 0>>) <= 0)
        => /\ call[p].ret = pkg.Platforms_1_0
           /\ Len(Returned(p)) = 11
           /\ \A i \in 1..Len(Returned(p)) : Returned(p)[i].Default

C3_Witness ==
    \E p \in procs :
        /\ call[p].pc = "done"
        /\ call[p].arg = Go(<<0, 9>>)
        /\ Len(Returned(p)) = 11

\* C4: of two calls that returned for versions v1 < v2, both within ranges
\* of the table, every entry of the list for v1 is an entry of the list for
\* v2, unless v1 is a 1.6 release, v2 is 1.7 or later, and the entry is one
\* whose default flag the later list corrects.
C4_Monotonic ==
    \A p, q \in procs :
        (/\ call[p].pc = "done" /\ call[q].pc = "done"
         /\ Parses(call[p].arg) /\ Parses(call[q].arg)
         /\ InSomeRange(VersionOf(call[p].arg))
         /\ InSomeRange(VersionOf(call[q].arg))
         /\ Compare(VersionOf(call[p].arg), VersionOf(call[q].arg)) < 0)
        => \A e \in Entries(Returned(p)) :
              \/ e \in Entries(Returned(q))
              \/ /\ InRange(VersionOf(call[p].arg), 6)
                 /\ Compare(VersionOf(call[q].arg), <<1, 7>>) >= 0
                 /\ [e EXCEPT !.Default = ~e.Default] \in Entries(Returned(q))

C4_Witness ==
    \E p, q \in procs :
        /\ call[p].pc = "done" /\ call[q].pc = "done"
        /\ call[p].arg = Go(<<1, 6, 1>>) /\ call[q].arg = Go(<<1, 7>>)
        /\ call[p].exit = "loop" /\ call[q].exit = "loop"
        /\ Len(Returned(p)) < Len(Returned(q))

\* C5: once the package is initialized no step of any caller, in any
\* interleaving, changes a backing array or a package variable, and every
\* call returns the list the function gives for its argument when one
\* caller runs it alone.
C5_CallsOnlyRead ==
    /\ [][InitDone => (heap' = heap /\ pkg' = pkg)]_vars
    /\ [](\A p \in procs :
            call[p].pc = "done" =>
                call[p].ret = SupportedPlatforms(pkg, call[p].arg))

C5_Witness ==
    \E p, q \in procs :
        /\ p # q
        /\ call[p].pc = "done" /\ call[p].exit = "loop"
        /\ call[q].pc = "range" /\ call[q].i > 1
        /\ call[p].ret # call[q].platforms[call[q].i].plat

\* C6: OSUname and ArchUname give the uname label of every identifier of
\* their table (solaris is SunOS, linux is Linux, arm64 is aarch64, amd64 is
\* x86_64) and the empty string for every other identifier; String gives
\* "<OS>/<Arch>"; no method changes the Platform.
C6_Methods ==
    /\ probe.after = probe.before
    /\ probe.method = "OSUname" =>
        /\ probe.before.OS = "solaris" => probe.out = "SunOS"
        /\ probe.before.OS = "linux" => probe.out = "Linux"
        /\ probe.before.OS = "darwin" => probe.out = "Darwin"
        /\ probe.before.OS \in {"android", "nacl", "zos", "js", "aix"}
            <=> probe.out = ""
    /\ probe.method = "ArchUname" =>
        /\ probe.before.Arch = "arm64" => probe.out = "aarch64"
        /\ probe.before.Arch = "amd64" => probe.out = "x86_64"
        /\ probe.before.Arch = "386" => probe.out = "i386"
        /\ probe.before.Arch \in {"arm", "ppc64", "ppc64le"}
            => probe.out = probe.before.Arch
        /\ probe.before.Arch \in
             {"amd64p32", "mips", "mipsle", "mips64", "mips64le", "ppc",
              "s390", "s390x", "sparc", "sparc64", "riscv64", "wasm"}
            <=> probe.out = ""
    /\ probe.method = "String" =>
        /\ probe.out = probe.before.OS \o "/" \o probe.before.Arch
        /\ (probe.before.OS = "linux" /\ probe.before.Arch = "amd64")
            => probe.out = "linux/amd64"

C6_Witness ==
    /\ probe.method = "OSUname"
    /\ probe.before.OS = "android"
    /\ probe.out = ""

\* C7: every snapshot that has been built holds exactly the entries it was
\* written with, also after later snapshots were built by appending to an
\* earlier one.
C7_AppendLeavesSnapshots ==
    \A n \in VarNames : Built(n) => Content(n) = Authored(n)

\* C8: in every snapshot that has been built no two entries have the same
\* OS and the same Arch.
C8_UniquePairs ==
    \A n \in VarNames :
        Built(n) =>
            \A i, j \in 1..Len(Content(n)) :
                (Content(n)[i].OS = Content(n)[j].OS
                    /\ Content(n)[i].Arch = Content(n)[j].Arch) => i = j

\* C9 as stated: a call whose version parsed never reaches the statement
\* after the loop.
C9_FallbackUnreachable ==
    \A p \in procs : call[p].pc # "after" /\ call[p].exit # "after"

\* C9 as amended: a call whose version parsed returns from inside the loop
\* exactly when the version is at most 1.0 or at least 1.1 and below 1.13;
\* for every other version it returns after the loop, with the latest
\* snapshot.
C9_FallbackWhenOutside ==
    \A p \in procs :
        (call[p].pc = "done" /\ Parses(call[p].arg)) =>
            LET v == VersionOf(call[p].arg)
                inside == \/ Compare(v, <<1, 0>>) <= 0
                          \/ Compare(v, <<1, 1>>) >= 0 /\ Compare(v, <<1, 13>>) < 0
            IN  /\ call[p].exit = (IF inside THEN "loop" ELSE "after")
                /\ ~inside => /\ call[p].ret = pkg.Platforms_1_12
                              /\ call[p].ret = pkg.PlatformsLatest

C9_Witness ==
    \E p \in procs :
        /\ call[p].pc = "done"
        /\ call[p].arg = Go(<<1, 13>>)
        /\ call[p].exit = "after"
        /\ call[p].ret = pkg.PlatformsLatest

\* C10: a call for a version at or above 1.0 returns the snapshot of the
\* greatest milestone (1.0, 1.1, 1.3, 1.4, ..., 1.12) that is at most the
\* version.
C10_ClosestFloor ==
    \A p \in procs :
        (call[p].pc = "done" /\ Parses(call[p].arg)
            /\ Compare(VersionOf(call[p].arg), <<1, 0>>) >= 0)
        => LET v == VersionOf(call[p].arg)
               m == CHOOSE k \in 1..Len(RangeNames) :
                      /\ Compare(IF k = 1 THEN <<1, 0>> ELSE RangeLow[k], v) <= 0
                      /\ \A j \in (k + 1)..Len(RangeNames) :
                            Compare(RangeLow[j], v) > 0
           IN  call[p].ret = pkg[RangeNames[m]]

====
